---- MODULE Spec2Model ----
(***************************************************************************)
(* Model of fmodel.py: the fixtures scheduling core.                       *)
(*                                                                         *)
(* solve(params) is modelled as a state machine whose steps are the phases *)
(* of the function: variable construction (lines 84-118), constraint       *)
(* construction (lines 120-135), the call of the solver engine (lines      *)
(* 137-138) and the status branch (lines 139-147).  date_windows is a pure *)
(* operator.  Dates are day numbers; the difference of two dates in days   *)
(* is the difference of the numbers.  A list of home dates is modelled by  *)
(* the set of its dates, iterated in ascending order (the calendar         *)
(* generator produces ascending lists without repetition).                 *)
(***************************************************************************)
EXTENDS Integers, Sequences, FiniteSets

\* ------------------------------------------------------------------ bounds

\* longest list of teams handed to solve
MaxTeams == 3
\* number of dates of the calendar
MaxDay == 2
\* longest list of dates handed to date_windows on its own
MaxDates == 4
\* latest date of such a list
LastDate == 5

Clubs == {"A", "B"}
Divisions == {1, 2}

\* the calendar: dates as day numbers, every second day, so that two dates
\* are 2, 4, ... days apart
Days == {2 * k - 1 : k \in 1..MaxDay}

\* min_gap_days: a negative value, 0, and gaps below, at and above the
\* distance of two neighbouring dates
MinGapValues == -1..MaxDay

\* max_concurrent_home_matches: from a negative value up to the largest number
\* of fixtures without a common team that MaxTeams teams can play on one date
MaxConcurrentValues == -1..(MaxTeams \div 2)

\* the lists handed to date_windows on its own: any order, with or without a
\* repeated date
DateLists == UNION {[1..n -> 1..LastDate] : n \in 0..MaxDates}

\* window_days: a negative value, 0, and windows up to one that holds every date
WindowDayValues == -1..LastDate

\* ------------------------------------------------------------ domain model

Team == [division : Divisions, club : Clubs, index : {1}]

Fixture(home, away) == [home_team |-> home, away_team |-> away]

ScheduledFixture(fixture, date) == [fixture |-> fixture, date |-> date]

\* The lists of teams, up to their order and up to the names of the clubs and
\* of the divisions: solve groups the teams by division and pairs them within
\* each, so the order of the list decides only the order in which the same
\* variables are created, and it uses a club or a division only as a key.
\* A list is therefore taken in ascending rank and, unless empty, starting
\* with the team of division 1 and club "A"; it names that team once or
\* several times and each other team at most once.
TeamRank(t) == 2 * t.division + (IF t.club = "A" THEN 0 ELSE 1)

TeamLists ==
    {s \in UNION {[1..n -> Team] : n \in 0..MaxTeams} :
        /\ s # <<>> => (s[1].division = 1 /\ s[1].club = "A")
        /\ \A i \in 1..(Len(s) - 1) :
             \/ TeamRank(s[i]) < TeamRank(s[i + 1])
             \/ s[i] = s[1] /\ s[i + 1] = s[1]}

ClubsOf(teams) == {teams[i].club : i \in DOMAIN teams}

\* home_dates: each club has no entry or a list of dates (maybe empty)
HomeDateMaps(clubs) == UNION {[S -> SUBSET Days] : S \in SUBSET clubs}

\* unavailable_away_dates: each club has no entry or a list of one date
UnavailableDateMaps(clubs) == UNION {[S -> {{d} : d \in Days}] : S \in SUBSET clubs}

\* -------------------------------------------------------------- sequences

Range(s) == {s[i] : i \in DOMAIN s}

Min(S) == CHOOSE x \in S : \A y \in S : x <= y

RECURSIVE Ascending(_)
Ascending(S) ==
    IF S = {} THEN <<>>
    ELSE LET m == Min(S) IN <<m>> \o Ascending(S \ {m})

\* sorted(dates): insertion of each element into an ascending list
RECURSIVE Sorted(_)
Sorted(s) ==
    IF s = <<>> THEN <<>>
    ELSE LET rest == Sorted(Tail(s))
             x == Head(s)
             lo == SelectSeq(rest, LAMBDA y : y < x)
             hi == SelectSeq(rest, LAMBDA y : y >= x)
         IN lo \o <<x>> \o hi


\* first occurrences of the elements of s, in order (the key order of a dict)
RECURSIVE KeyOrder(_)
KeyOrder(s) ==
    IF s = <<>> THEN <<>>
    ELSE LET init == KeyOrder(SubSeq(s, 1, Len(s) - 1))
             x == s[Len(s)]
         IN IF x \in Range(init) THEN init ELSE Append(init, x)

RECURSIVE Flatten(_)
Flatten(ss) == IF ss = <<>> THEN <<>> ELSE Head(ss) \o Flatten(Tail(ss))

\* ----------------------------------------------------------- date_windows

\* WindowFrom with the size of the window taken as |window_days|
RECURSIVE WindowFromAbsolute(_, _, _, _)
WindowFromAbsolute(dates, d, j, window_days) ==
    IF j > Len(dates) THEN {}
    ELSE IF dates[j] - d <= (IF window_days < 0 THEN -window_days ELSE window_days)
         THEN {dates[j]} \cup WindowFromAbsolute(dates, d, j + 1, window_days)
         ELSE {}

\* WindowFrom measuring each date from the date before it, not from d
RECURSIVE WindowFromChained(_, _, _, _)
WindowFromChained(dates, d, j, window_days) ==
    IF j > Len(dates) THEN {}
    ELSE IF dates[j] - dates[j - 1] <= window_days
         THEN {dates[j]} \cup WindowFromChained(dates, d, j + 1, window_days)
         ELSE {}

\* WindowFrom that lets in a date one day past the window
RECURSIVE WindowFromOneDayMore(_, _, _, _)
WindowFromOneDayMore(dates, d, j, window_days) ==
    IF j > Len(dates) THEN {}
    ELSE IF dates[j] - d <= window_days + 1
         THEN {dates[j]} \cup WindowFromOneDayMore(dates, d, j + 1, window_days)
         ELSE {}

\* WindowFrom with a strict comparison: a date exactly window_days after d
\* is left out
RECURSIVE WindowFromStrict(_, _, _, _)
WindowFromStrict(dates, d, j, window_days) ==
    IF j > Len(dates) THEN {}
    ELSE IF dates[j] - d < window_days
         THEN {dates[j]} \cup WindowFromStrict(dates, d, j + 1, window_days)
         ELSE {}

\* the inner loop of date_windows: the dates from position j on that are
\* within window_days of d, up to the first one that is not (the break)
RECURSIVE WindowFrom(_, _, _, _)
WindowFrom(dates, d, j, window_days) ==
    IF j > Len(dates) THEN {}
    ELSE IF dates[j] - d <= window_days
         THEN {dates[j]} \cup WindowFrom(dates, d, j + 1, window_days)
         ELSE {}

\* AllWindows without the window of the last position
AllWindowsButLast(dates, window_days) ==
    [i \in 1..(Len(dates) - 1) |->
        {dates[i]} \cup WindowFrom(dates, dates[i], i + 1, window_days)]

\* all_windows after the first loop: one window per position of the sorted list
AllWindows(dates, window_days) ==
    [i \in 1..Len(dates) |->
        {dates[i]} \cup WindowFrom(dates, dates[i], i + 1, window_days)]

\* all_windows.sort(key=len, reverse=True): a stable sort by descending size
RECURSIVE SortBySizeDesc(_)
SortBySizeDesc(ws) ==
    IF ws = <<>> THEN <<>>
    ELSE LET rest == SortBySizeDesc(Tail(ws))
             w == Head(ws)
             larger == SelectSeq(rest, LAMBDA x : Cardinality(x) > Cardinality(w))
             others == SelectSeq(rest, LAMBDA x : Cardinality(x) <= Cardinality(w))
         IN larger \o <<w>> \o others

\* KeepMaximal that drops a window as soon as it shares a date with a kept one
RECURSIVE KeepDisjoint(_, _)
KeepDisjoint(all_windows, kept) ==
    IF all_windows = <<>> THEN kept
    ELSE LET window == Head(all_windows)
         IN IF \E w \in Range(kept) : window \cap w # {}
            THEN KeepDisjoint(Tail(all_windows), kept)
            ELSE KeepDisjoint(Tail(all_windows), Append(kept, window))

\* KeepMaximal without the filter: every window is kept
KeepEvery(all_windows, kept) == kept \o all_windows

\* the filtering loop: a window is kept unless a kept window contains it
RECURSIVE KeepMaximal(_, _)
KeepMaximal(all_windows, kept) ==
    IF all_windows = <<>> THEN kept
    ELSE LET window == Head(all_windows)
         IN IF \E w \in Range(kept) : window \subseteq w
            THEN KeepMaximal(Tail(all_windows), kept)
            ELSE KeepMaximal(Tail(all_windows), Append(kept, window))

\* date_windows without line 64: the dates are taken in the order given
date_windows_unsorted(dates, window_days) ==
    KeepMaximal(SortBySizeDesc(AllWindows(dates, window_days)), <<>>)

date_windows(dates, window_days) ==
    KeepMaximal(SortBySizeDesc(AllWindows(Sorted(dates), window_days)), <<>>)


\* ------------------------------------------------------------------ state

VARIABLES
    params,       \* the Parameters handed to solve
    pc,           \* where solve is: "start", "built", "constrained", "solved",
                  \* "returned" or "raised"
    model_vars,   \* the decision variables in creation order: variable i is model_vars[i]
    constraints,  \* the linear constraints added to the model
    status,       \* the solver's answer, "none" before the call
    assignment,   \* the variables the solver's answer makes true
    result,       \* the list solve returns
    error,        \* the exception solve ends with, "none" if none
    dw_dates,       \* a call of date_windows on its own: the dates,
    dw_window_days, \* the window,
    dw_pc,          \* "idle" (no call), "called" or "returned",
    dw_result       \* and the list returned

solve_vars == <<params, pc, model_vars, constraints, status, assignment, result, error>>

dw_vars == <<dw_dates, dw_window_days, dw_pc, dw_result>>

vars == <<solve_vars, dw_vars>>

KeyError == "KeyError"
NoSolutionFound == "ValueError: No solution found"

\* ------------------------------------------------- solve: the variables

\* teams_by_division: the divisions in order of first appearance
DivisionOrder == KeyOrder([i \in DOMAIN params.teams |-> params.teams[i].division])

\* DivisionTeams with the grouping lost: every division gets every team
DivisionTeamsUngrouped(division) == params.teams

\* teams_by_division[division]
DivisionTeams(division) ==
    SelectSeq(params.teams, LAMBDA t : t.division = division)

\* itertools.permutations(division_teams, 2): the pairs of positions (i, j),
\* i # j, in lexicographic order
Permutations2(division_teams) ==
    LET n == Len(division_teams)
    IN [k \in 1..(n * (n - 1)) |->
          LET i == ((k - 1) \div (n - 1)) + 1
              r == ((k - 1) % (n - 1)) + 1
              j == IF r < i THEN r ELSE r + 1
          IN Fixture(division_teams[i], division_teams[j])]

\* the (home_team, away_team) pairs in the order the two outer loops visit them
FixturePairs ==
    Flatten([k \in DOMAIN DivisionOrder |->
                Permutations2(DivisionTeams(DivisionOrder[k]))])

\* params.unavailable_away_dates.get(club, [])
UnavailableAwayDates(club) ==
    IF club \in DOMAIN params.unavailable_away_dates
    THEN params.unavailable_away_dates[club]
    ELSE {}

\* Eligible with the blackout looked up under a key that is never present
EligibleIgnoringBlackout(away_team, match_date) == match_date \notin {}

\* the test of line 105, negated: match_date is kept for this away team
Eligible(away_team, match_date) ==
    match_date \notin UnavailableAwayDates(away_team.club)

\* the innermost loop: one variable per eligible home date of the home club
NewVars(f) ==
    LET dates == Ascending(params.home_dates[f.home_team.club])
        kept == SelectSeq(dates, LAMBDA d : Eligible(f.away_team, d))
    IN [k \in DOMAIN kept |->
          [home_team |-> f.home_team, away_team |-> f.away_team, date |-> kept[k]]]

\* CreateVariables with the home dates read by .get(club, []): a club without
\* an entry has no home date
RECURSIVE CreateVariablesLenient(_, _)
CreateVariablesLenient(pairs, created) ==
    IF pairs = <<>> THEN [model_vars |-> created, raised |-> FALSE]
    ELSE IF Head(pairs).home_team.club \notin DOMAIN params.home_dates
         THEN CreateVariablesLenient(Tail(pairs), created)
         ELSE CreateVariablesLenient(Tail(pairs), created \o NewVars(Head(pairs)))

\* the loops of lines 102-118 over the remaining pairs; params.home_dates[club]
\* raises KeyError for a club without an entry
RECURSIVE CreateVariables(_, _)
CreateVariables(pairs, created) ==
    IF pairs = <<>> THEN [model_vars |-> created, raised |-> FALSE]
    ELSE IF Head(pairs).home_team.club \notin DOMAIN params.home_dates
         THEN [model_vars |-> created, raised |-> TRUE]
         ELSE CreateVariables(Tail(pairs), created \o NewVars(Head(pairs)))

VarFixture(i) == Fixture(model_vars[i].home_team, model_vars[i].away_team)

\* FixtureKeys with a key for every pair the loops visit, with or without a
\* variable
FixtureKeysOfAllPairs == Range(FixturePairs)

\* the keys of vars_by_fixture
FixtureKeys == {VarFixture(i) : i \in DOMAIN model_vars}

\* vars_by_fixture[f], each entry tagged with its position's role
VarsByFixture(f) == {<<i, "fixture">> : i \in {k \in DOMAIN model_vars : VarFixture(k) = f}}

\* the keys of vars_by_fixture_date, in insertion order
FixtureDateKeys ==
    KeyOrder([i \in DOMAIN model_vars |-> <<VarFixture(i), model_vars[i].date>>])

\* vars_by_fixture_date[key], in creation order
VarsByFixtureDate(key) ==
    SelectSeq([i \in DOMAIN model_vars |-> i],
              LAMBDA i : <<VarFixture(i), model_vars[i].date>> = key)

\* the keys of vars_by_team_date
TeamKeys ==
    {model_vars[i].home_team : i \in DOMAIN model_vars} \cup {model_vars[i].away_team : i \in DOMAIN model_vars}

\* vars_by_team_date[team].keys(), in insertion order
TeamDateKeys(team) ==
    LET mine == SelectSeq([i \in DOMAIN model_vars |-> i],
                          LAMBDA i : model_vars[i].home_team = team \/ model_vars[i].away_team = team)
    IN KeyOrder([k \in DOMAIN mine |-> model_vars[mine[k]].date])

\* VarsByTeamDate without line 117: the away team's entry is never appended
VarsByTeamDateHomeOnly(team, date) ==
    {<<i, "home">> : i \in {k \in DOMAIN model_vars :
                              model_vars[k].home_team = team /\ model_vars[k].date = date}}

\* VarsByTeamDate as a set of variables: a variable whose two teams are the
\* same team counts once
VarsByTeamDateOncePerVariable(team, date) ==
    {<<i, "home">> : i \in {k \in DOMAIN model_vars :
                              /\ model_vars[k].date = date
                              /\ \/ model_vars[k].home_team = team
                                 \/ model_vars[k].away_team = team}}

\* vars_by_team_date[team][date]: a variable is appended once as the home
\* team's and once as the away team's
VarsByTeamDate(team, date) ==
    {<<i, "home">> : i \in {k \in DOMAIN model_vars :
                              model_vars[k].home_team = team /\ model_vars[k].date = date}}
    \cup
    {<<i, "away">> : i \in {k \in DOMAIN model_vars :
                              model_vars[k].away_team = team /\ model_vars[k].date = date}}

\* the keys of vars_by_club_home_date
ClubHomeDateKeys == {<<model_vars[i].home_team.club, model_vars[i].date>> : i \in DOMAIN model_vars}

\* vars_by_club_home_date[key]
VarsByClubHomeDate(key) ==
    {<<i, "host">> : i \in {k \in DOMAIN model_vars :
                              <<model_vars[k].home_team.club, model_vars[k].date>> = key}}

\* ----------------------------------------------- solve: the constraints

\* A constraint is Sum(terms) op rhs; a term is one occurrence <<i, role>> of
\* variable i in the summed list.

\* CoverageConstraints with <= in place of ==
CoverageConstraintsAtMostOnce ==
    {[kind |-> "coverage", terms |-> VarsByFixture(f), op |-> "le", rhs |-> 1] :
        f \in FixtureKeys}

\* lines 120-122
CoverageConstraints ==
    {[kind |-> "coverage", terms |-> VarsByFixture(f), op |-> "eq", rhs |-> 1] :
        f \in FixtureKeys}

\* line 127: window_vars
WindowVars(team, window) == UNION {VarsByTeamDate(team, d) : d \in window}

\* RestConstraints added only for a positive min_gap_days
RestConstraintsForPositiveGap ==
    IF params.min_gap_days <= 0 THEN {}
    ELSE UNION {
        {[kind |-> "rest", terms |-> WindowVars(team, window), op |-> "le", rhs |-> 1] :
            window \in Range(date_windows(TeamDateKeys(team), params.min_gap_days))} :
        team \in TeamKeys}

\* lines 124-128
RestConstraints ==
    UNION {
        {[kind |-> "rest", terms |-> WindowVars(team, window), op |-> "le", rhs |-> 1] :
            window \in Range(date_windows(TeamDateKeys(team), params.min_gap_days))} :
        team \in TeamKeys}

\* CapacityConstraints with a negative bound read as "no limit"
CapacityConstraintsUnlessNegative ==
    IF params.max_concurrent_home_matches < 0 THEN {}
    ELSE {[kind |-> "capacity", terms |-> VarsByClubHomeDate(key), op |-> "le",
           rhs |-> params.max_concurrent_home_matches] : key \in ClubHomeDateKeys}

\* CapacityConstraints with the bound off by one
CapacityConstraintsOffByOne ==
    {[kind |-> "capacity", terms |-> VarsByClubHomeDate(key), op |-> "le",
      rhs |-> params.max_concurrent_home_matches + 1] : key \in ClubHomeDateKeys}

\* lines 130-135
CapacityConstraints ==
    {[kind |-> "capacity", terms |-> VarsByClubHomeDate(key), op |-> "le",
      rhs |-> params.max_concurrent_home_matches] : key \in ClubHomeDateKeys}


\* ---------------------------------------------------- the solver engine

\* the value of a sum of variables under an assignment
Sum(terms, asg) == Cardinality({t \in terms : t[1] \in asg})

Holds(c, asg) ==
    IF c.op = "eq" THEN Sum(c.terms, asg) = c.rhs ELSE Sum(c.terms, asg) <= c.rhs

\* the variables that can be true at all: those no constraint excludes by itself
Free(n, cs) == {i \in 1..n : \A c \in cs : Sum(c.terms, {i}) <= c.rhs}

\* with variables 1..k decided as in asg, c can still be made to hold
CanStillHold(c, asg, k, free) ==
    /\ Sum(c.terms, asg) <= c.rhs
    /\ c.op = "eq" =>
         Sum(c.terms, asg) + Cardinality({t \in c.terms : t[1] > k /\ t[1] \in free})
            >= c.rhs

\* every assignment of variables 1..n that extends asg (which decides 1..k)
\* and satisfies all of cs
RECURSIVE Search(_, _, _, _, _)
Search(n, cs, asg, k, free) ==
    IF \E c \in cs : ~CanStillHold(c, asg, k, free) THEN {}
    ELSE IF k = n THEN {asg}
    ELSE Search(n, cs, asg, k + 1, free)
         \cup (IF k + 1 \in free THEN Search(n, cs, asg \cup {k + 1}, k + 1, free)
               ELSE {})

\* the assignments the engine may answer with: all that satisfy the model
SatisfyingAssignments ==
    Search(Len(model_vars), constraints, {}, 0, Free(Len(model_vars), constraints))

\* SolutionFound without the FEASIBLE status
SolutionFoundOptimalOnly == status = "OPTIMAL"

\* SolutionFound as "the solver did not give up"
SolutionFoundUnlessUnknown == status # "UNKNOWN"

\* line 139
SolutionFound == status \in {"OPTIMAL", "FEASIBLE"}

\* lines 140-145: the true variables, by (fixture, date) key and then by
\* position in the key's list
Extract ==
    Flatten([k \in DOMAIN FixtureDateKeys |->
        LET key == FixtureDateKeys[k]
            true_vars == SelectSeq(VarsByFixtureDate(key), LAMBDA i : i \in assignment)
        IN [m \in DOMAIN true_vars |-> ScheduledFixture(key[1], key[2])]])

\* ---------------------------------------------------------------- actions

\* Any Parameters within the bounds; the two mappings have entries only for
\* clubs of listed teams (solve looks up no other club).
Init ==
    /\ \E teams \in TeamLists :
       \E home_dates \in HomeDateMaps(ClubsOf(teams)) :
       \E unavailable_away_dates \in UnavailableDateMaps(ClubsOf(teams)) :
       \E min_gap_days \in MinGapValues :
       \E max_concurrent_home_matches \in MaxConcurrentValues :
          params = [teams |-> teams,
                    home_dates |-> home_dates,
                    unavailable_away_dates |-> unavailable_away_dates,
                    min_gap_days |-> min_gap_days,
                    max_concurrent_home_matches |-> max_concurrent_home_matches]
    /\ pc = "start"
    /\ model_vars = <<>>
    /\ constraints = {}
    /\ status = "none"
    /\ assignment = {}
    /\ result = <<>>
    /\ error = "none"
    /\ dw_dates = <<>>
    /\ dw_window_days = 0
    /\ dw_pc = "idle"
    /\ dw_result = <<>>

\* lines 84-118: the model, the indices and the variables
BuildVariables ==
    /\ pc = "start"
    /\ \E built \in {CreateVariables(FixturePairs, <<>>)} :
          /\ model_vars' = built.model_vars
          /\ IF built.raised
             THEN pc' = "raised" /\ error' = KeyError
             ELSE pc' = "built" /\ error' = error
    /\ UNCHANGED <<params, constraints, status, assignment, result>>
    /\ UNCHANGED dw_vars

\* lines 120-135: the three families of constraints
AddConstraints ==
    /\ pc = "built"
    /\ constraints' = CoverageConstraints \cup RestConstraints \cup CapacityConstraints
    /\ pc' = "constrained"
    /\ UNCHANGED <<params, model_vars, status, assignment, result, error>>
    /\ UNCHANGED dw_vars

\* lines 137-138: the engine answers with a satisfying assignment if there is
\* one (the solver runs with its default parameters, without a limit)
Solve ==
    /\ pc = "constrained"
    /\ \E answers \in {SatisfyingAssignments} :
          IF answers = {}
          THEN status' = "INFEASIBLE" /\ assignment' = {}
          ELSE /\ status' \in {"OPTIMAL", "FEASIBLE"}
               /\ assignment' \in answers
    /\ pc' = "solved"
    /\ UNCHANGED <<params, model_vars, constraints, result, error>>
    /\ UNCHANGED dw_vars

\* lines 139-145
ReturnResult ==
    /\ pc = "solved"
    /\ SolutionFound
    /\ result' = Extract
    /\ pc' = "returned"
    /\ UNCHANGED <<params, model_vars, constraints, status, assignment, error>>
    /\ UNCHANGED dw_vars

\* lines 146-147
RaiseNoSolution ==
    /\ pc = "solved"
    /\ ~SolutionFound
    /\ error' = NoSolutionFound
    /\ pc' = "raised"
    /\ UNCHANGED <<params, model_vars, constraints, status, assignment, result>>
    /\ UNCHANGED dw_vars

Next ==
    \/ BuildVariables
    \/ AddConstraints
    \/ Solve
    \/ ReturnResult
    \/ RaiseNoSolution

Spec == Init /\ [][Next]_vars

\* ------------------------------------------- date_windows called on its own

\* a call of date_windows with any list of dates and any window; solve is
\* not running
DateWindowsInit ==
    /\ dw_dates \in DateLists
    /\ dw_window_days \in WindowDayValues
    /\ dw_pc = "called"
    /\ dw_result = <<>>
    /\ params = [teams |-> <<>>, home_dates |-> <<>>, unavailable_away_dates |-> <<>>,
                 min_gap_days |-> 0, max_concurrent_home_matches |-> 0]
    /\ pc = "idle"
    /\ model_vars = <<>>
    /\ constraints = {}
    /\ status = "none"
    /\ assignment = {}
    /\ result = <<>>
    /\ error = "none"

\* lines 61-80: the function has no raise and no early return
DateWindowsReturn ==
    /\ dw_pc = "called"
    /\ dw_result' = date_windows(dw_dates, dw_window_days)
    /\ dw_pc' = "returned"
    /\ UNCHANGED <<dw_dates, dw_window_days>>
    /\ UNCHANGED solve_vars

DateWindowsNext == DateWindowsReturn

DateWindowsSpec == DateWindowsInit /\ [][DateWindowsNext]_vars


\* ------------------------------------------------------------------ claims

Returned == pc = "returned"

ListedTeams == Range(params.teams)

\* the ordered pairs of distinct listed teams that share a division
RequiredFixtures ==
    {Fixture(p[1], p[2]) : p \in {q \in ListedTeams \X ListedTeams :
                                      q[1] # q[2] /\ q[1].division = q[2].division}}

HomeDatesOf(club) ==
    IF club \in DOMAIN params.home_dates THEN params.home_dates[club] ELSE {}

BlackoutDatesOf(club) ==
    IF club \in DOMAIN params.unavailable_away_dates
    THEN params.unavailable_away_dates[club]
    ELSE {}

\* the dates a fixture can be played on
EligibleDates(f) == HomeDatesOf(f.home_team.club) \ BlackoutDatesOf(f.away_team.club)

\* the positions of the result that schedule fixture f
Scheduled(f) == {i \in DOMAIN result : result[i].fixture = f}

Involves(i, team) ==
    result[i].fixture.home_team = team \/ result[i].fixture.away_team = team

Abs(x) == IF x < 0 THEN -x ELSE x

NoNegativeParameter ==
    params.min_gap_days >= 0 /\ params.max_concurrent_home_matches >= 0

\* the number of fixtures of the result that club hosts on date
Hosted(club, date) ==
    Cardinality({i \in DOMAIN result :
                    result[i].fixture.home_team.club = club /\ result[i].date = date})

C4_DatesAreEligible ==
    Returned =>
        \A i \in DOMAIN result :
            /\ result[i].fixture.home_team.club \in DOMAIN params.home_dates
            /\ result[i].date \in params.home_dates[result[i].fixture.home_team.club]
            /\ result[i].date \notin BlackoutDatesOf(result[i].fixture.away_team.club)

C4_Witness ==
    /\ Returned
    /\ \E i \in DOMAIN result :
         HomeDatesOf(result[i].fixture.home_team.club)
            \cap BlackoutDatesOf(result[i].fixture.away_team.club) # {}

\* C5: a returned result holds no fixture between teams of different divisions.
C5_NoCrossDivisionFixture ==
    Returned =>
        \A i \in DOMAIN result :
            result[i].fixture.home_team.division = result[i].fixture.away_team.division

C5_Witness ==
    /\ Returned
    /\ result # <<>>
    /\ \E t \in ListedTeams : \E u \in ListedTeams : t.division # u.division


Finished == pc \in {"returned", "raised"}

\* every club that solve looks up (the club of a team that has a partner in
\* its division) has an entry in home_dates
NoMissingHomeDates ==
    \A f \in RequiredFixtures : f.home_team.club \in DOMAIN params.home_dates

\* the required fixtures whose home club has a list of home dates, none of
\* which the away club can travel on
WithoutEligibleDate ==
    {f \in RequiredFixtures :
        f.home_team.club \in DOMAIN params.home_dates /\ EligibleDates(f) = {}}

\* Two teams of one division; the only home date of the first is the only
\* blackout date of the second, and the other way round.
TwoTeamExample ==
    /\ Len(params.teams) = 2
    /\ params.teams[1] # params.teams[2]
    /\ params.teams[1].division = params.teams[2].division
    /\ params.teams[1].club # params.teams[2].club
    /\ DOMAIN params.home_dates = Clubs
    /\ DOMAIN params.unavailable_away_dates = Clubs
    /\ \E d1 \in Days : \E d2 \in Days \ {d1} :
         /\ params.home_dates[params.teams[1].club] = {d1}
         /\ params.unavailable_away_dates[params.teams[1].club] = {d2}
         /\ params.home_dates[params.teams[2].club] = {d2}
         /\ params.unavailable_away_dates[params.teams[2].club] = {d1}

LacksHomeDates(i) == params.teams[i].club \notin DOMAIN params.home_dates

\* another entry of the list is in the division of entry i
HasPartner(i) ==
    \E j \in DOMAIN params.teams \ {i} :
        params.teams[j].division = params.teams[i].division

\* C9 as stated (here for Parameters without a negative number, which are
\* enough to refute it): when a listed team's club has no home_dates entry,
\* solve raises an error other than "No solution found" before it creates a
\* variable or a constraint.
C9_MissingHomeDatesFailFast ==
    Finished /\ NoNegativeParameter /\ (\E i \in DOMAIN params.teams : LacksHomeDates(i)) =>
        /\ pc = "raised"
        /\ error # NoSolutionFound
        /\ model_vars = <<>>
        /\ constraints = {}

\* C9 amended: solve raises KeyError exactly when a listed team whose club has
\* no home_dates entry has a partner in its division; it does so in the
\* variable loop, perhaps after creating variables, and before any constraint
\* or solver call; a team alone in its division is never looked up.
C9_MissingHomeDatesRaiseKeyError ==
    Finished =>
        /\ error = KeyError <=>
             \E i \in DOMAIN params.teams : LacksHomeDates(i) /\ HasPartner(i)
        /\ error = KeyError =>
             pc = "raised" /\ constraints = {} /\ status = "none" /\ result = <<>>

C9_Witness ==
    /\ pc = "raised"
    /\ error = KeyError
    /\ model_vars # <<>>

ConstraintDates(c) == {model_vars[t[1]].date : t \in c.terms}

DateWindowsReturned == dw_pc = "returned"

\* the list holds no date twice
Distinct(s) == \A i \in DOMAIN s : \A j \in DOMAIN s : i # j => s[i] # s[j]

\* one window of one date for every date of the call, in ascending order
SingletonWindows ==
    [i \in 1..Cardinality(Range(dw_dates)) |-> {Ascending(Range(dw_dates))[i]}]

\* C11 as stated: a call of date_windows with a negative window_days returns
\* nothing.
C11_NegativeWindowIsRejected ==
    dw_window_days < 0 => ~DateWindowsReturned

\* C11 amended: date_windows has no check of window_days; with a negative
\* value it returns what it returns with 0, one window of one date for each
\* date.
C11_NegativeWindowActsAsZero ==
    DateWindowsReturned /\ dw_window_days < 0 =>
        /\ dw_result = SingletonWindows
        /\ dw_result = date_windows(dw_dates, 0)

C11_Witness ==
    /\ DateWindowsReturned
    /\ dw_window_days < 0
    /\ \E i \in DOMAIN dw_dates : \E j \in DOMAIN dw_dates : dw_dates[j] - dw_dates[i] = 1
    /\ Len(dw_result) >= 2


\* the calls the contract of date_windows speaks of: dates without
\* repetition, a window that is not negative
ContractCall == DateWindowsReturned /\ Distinct(dw_dates) /\ dw_window_days >= 0

\* latest date minus earliest date of a window
Span(w) == (CHOOSE x \in w : \A y \in w : y <= x) - Min(w)

\* C12: no returned window is contained in another returned window, and no
\* window is returned twice.
C12_NoWindowInsideAnother ==
    ContractCall =>
        \A i \in DOMAIN dw_result : \A j \in DOMAIN dw_result :
            i # j => ~(dw_result[i] \subseteq dw_result[j])

C12_Witness ==
    /\ ContractCall
    /\ Len(dw_result) >= 2
    /\ Len(dw_result) < Len(dw_dates)
    /\ \E i \in DOMAIN dw_result : \E j \in DOMAIN dw_result :
         i # j /\ dw_result[i] \cap dw_result[j] # {}

\* C13: every date of the call is in some returned window, every returned
\* window holds dates of the call only, and an empty list of dates gives an
\* empty list of windows.
C13_WindowsCoverTheDates ==
    ContractCall =>
        /\ \A d \in Range(dw_dates) : \E i \in DOMAIN dw_result : d \in dw_result[i]
        /\ \A i \in DOMAIN dw_result : dw_result[i] \subseteq Range(dw_dates)
        /\ dw_dates = <<>> => dw_result = <<>>

C13_Witness ==
    /\ ContractCall
    /\ Len(dw_dates) = MaxDates
    /\ UNION Range(dw_result) = Range(dw_dates)
    /\ \E i \in DOMAIN dw_result : Cardinality(dw_result[i]) = 1
    /\ \E i \in DOMAIN dw_result : Cardinality(dw_result[i]) > 1

\* C14: the latest and the earliest date of a returned window are at most
\* window_days apart.
C14_SpanWithinWindow ==
    ContractCall =>
        \A i \in DOMAIN dw_result : Span(dw_result[i]) <= dw_window_days

C14_Witness ==
    /\ ContractCall
    /\ dw_window_days > 0
    /\ \E i \in DOMAIN dw_result :
         Cardinality(dw_result[i]) > 2 /\ Span(dw_result[i]) = dw_window_days
    /\ \E i \in DOMAIN dw_dates : \E j \in DOMAIN dw_dates :
         dw_dates[j] - dw_dates[i] > dw_window_days

\* C15: with window_days = 0 the returned windows are the singletons of the
\* dates of the call, each once.
C15_ZeroWindowGivesSingletons ==
    ContractCall /\ dw_window_days = 0 =>
        /\ Range(dw_result) = {{d} : d \in Range(dw_dates)}
        /\ Len(dw_result) = Len(dw_dates)

C15_Witness ==
    /\ ContractCall
    /\ dw_window_days = 0
    /\ Len(dw_dates) >= 2
    /\ \E i \in DOMAIN dw_dates : \E j \in DOMAIN dw_dates : dw_dates[i] - dw_dates[j] = 1
    /\ \E i \in 1..(Len(dw_dates) - 1) : dw_dates[i] > dw_dates[i + 1]


\* the sets of a family that no other set of the family contains
MaximalOf(family) == {S \in family : \A T \in family : S \subseteq T => S = T}

\* the non-empty sets of dates of the call whose span is within the window
SetsWithinWindow ==
    {S \in SUBSET Range(dw_dates) : S # {} /\ Span(S) <= dw_window_days}

\* for each date d of the call, the dates from d to d + window_days
ForwardWindows ==
    {{e \in Range(dw_dates) : d <= e /\ e <= d + dw_window_days} : d \in Range(dw_dates)}

\* C17: the returned windows are, each once, the maximal sets of dates of the
\* call whose span is within window_days, which are the maximal forward
\* windows; the list returned is the one returned for the same dates in
\* ascending order.
C17_MaximalWindowsInAnyOrder ==
    ContractCall =>
        /\ Range(dw_result) = MaximalOf(SetsWithinWindow)
        /\ Range(dw_result) = MaximalOf(ForwardWindows)
        /\ Len(dw_result) = Cardinality(Range(dw_result))
        /\ dw_result = date_windows(Ascending(Range(dw_dates)), dw_window_days)

C17_Witness ==
    /\ ContractCall
    /\ dw_dates # Ascending(Range(dw_dates))
    /\ Len(dw_result) >= 2
    /\ ForwardWindows # MaximalOf(ForwardWindows)
    /\ \E i \in DOMAIN dw_result : Cardinality(dw_result[i]) > 1

\* no window of the family holds two dates of the selection
AtMostOnePerWindow(family, selection) ==
    \A w \in family : Cardinality(selection \cap w) <= 1

\* the windows before the filter
CandidateWindows == Range(AllWindows(Sorted(dw_dates), dw_window_days))

\* C18: two dates of the call at most window_days apart are together in a
\* returned window; a selection of dates has at most one date in every
\* returned window exactly if it has at most one in every window before the
\* filter, exactly if no two of its dates are less than window_days + 1 apart.
C18_FilterKeepsEveryClosePair ==
    ContractCall =>
        /\ \A a \in Range(dw_dates) : \A b \in Range(dw_dates) :
              a < b /\ b - a <= dw_window_days =>
                  \E i \in DOMAIN dw_result : {a, b} \subseteq dw_result[i]
        /\ \A selection \in SUBSET Range(dw_dates) :
              /\ AtMostOnePerWindow(Range(dw_result), selection)
                    <=> AtMostOnePerWindow(CandidateWindows, selection)
              /\ AtMostOnePerWindow(Range(dw_result), selection)
                    <=> \A a \in selection : \A b \in selection :
                            a < b => b - a >= dw_window_days + 1

C18_Witness ==
    /\ ContractCall
    /\ Cardinality(CandidateWindows) > Len(dw_result)
    /\ Len(dw_result) >= 2
    /\ \E a \in Range(dw_dates) : \E b \in Range(dw_dates) :
         /\ a < b /\ b - a = dw_window_days
         /\ \E c \in Range(dw_dates) : c - a = dw_window_days + 1


\* ------------------------------------------------------- solve, continued

\* two different entries of the result that involve one team
SameTeamPairs ==
    {p \in (DOMAIN result) \X (DOMAIN result) :
        p[1] # p[2] /\ \E team \in ListedTeams : Involves(p[1], team) /\ Involves(p[2], team)}

\* C16: in a returned result no team has two fixtures on one date, whatever
\* min_gap_days is.
C16_NoTeamTwiceOnADate ==
    Returned => \A p \in SameTeamPairs : result[p[1]].date # result[p[2]].date

C16_Witness ==
    /\ Returned
    /\ params.min_gap_days = 0
    /\ \E p \in SameTeamPairs :
         EligibleDates(result[p[1]].fixture) \cap EligibleDates(result[p[2]].fixture) # {}

\* C19: no entry of a returned result has the same team at home and away,
\* also when the list of teams names a team more than once.
C19_NoTeamAgainstItself ==
    Returned =>
        \A i \in DOMAIN result : result[i].fixture.home_team # result[i].fixture.away_team

C19_Witness ==
    /\ Returned
    /\ ~Distinct(params.teams)
    /\ result # <<>>

\* Two teams of one division, each club with one home date, the two dates
\* exactly min_gap_days (at least one day) apart, no blackout date in the way
\* and room for a match at each club.
ExactGapExample ==
    /\ Len(params.teams) = 2
    /\ params.teams[1] # params.teams[2]
    /\ params.teams[1].division = params.teams[2].division
    /\ DOMAIN params.home_dates = Clubs
    /\ params.min_gap_days >= 1
    /\ params.max_concurrent_home_matches >= 1
    /\ \E d1 \in Days : \E d2 \in Days :
         /\ params.home_dates[params.teams[1].club] = {d1}
         /\ params.home_dates[params.teams[2].club] = {d2}
         /\ Abs(d1 - d2) = params.min_gap_days
         /\ d1 \notin BlackoutDatesOf(params.teams[2].club)
         /\ d2 \notin BlackoutDatesOf(params.teams[1].club)

\* the variables asg makes true put no two matches of a team less than
\* min_gap_days apart
GapsAtLeastMinGap(asg) ==
    \A i \in asg : \A j \in asg \ {i} :
        {model_vars[i].home_team, model_vars[i].away_team}
            \cap {model_vars[j].home_team, model_vars[j].away_team} # {}
        => Abs(model_vars[i].date - model_vars[j].date) >= params.min_gap_days

\* C20: in a returned result two fixtures of a team are never exactly
\* min_gap_days apart; in the two-team example with home dates exactly
\* min_gap_days apart solve ends with "No solution found", although some
\* choice of variables meets the coverage and capacity constraints with every
\* gap at least min_gap_days.
C20_ExactGapIsRefused ==
    /\ Returned =>
         \A p \in SameTeamPairs :
             Abs(result[p[1]].date - result[p[2]].date) # params.min_gap_days
    /\ Finished /\ ExactGapExample =>
         /\ pc = "raised" /\ error = NoSolutionFound
         /\ \E asg \in SUBSET DOMAIN model_vars :
              /\ \A c \in constraints : c.kind # "rest" => Holds(c, asg)
              /\ Cardinality(asg) = Cardinality(RequiredFixtures)
              /\ GapsAtLeastMinGap(asg)

C20_Witness ==
    /\ ExactGapExample
    /\ pc = "raised"
    /\ error = NoSolutionFound
    /\ Len(model_vars) = 2

====
